---- MODULE Spec2Model ----
(***************************************************************************)
(* WebSocketWithHeartbeat (src/src/index.ts, lines 1-207): a controller    *)
(* that owns one WebSocket, probes it with ping/pong heartbeats, closes it *)
(* when a probe times out, reconnects after a delay and follows the page's *)
(* visibility.  The host (WebSocket objects, the timer facility, the       *)
(* document's visibility, the caller's callbacks) is the environment.      *)
(*                                                                         *)
(* Handlers are written as functions from a state record to a state       *)
(* record, in the order of the statements of the source; an action applies *)
(* one whole handler.                                                      *)
(***************************************************************************)
EXTENDS Integers, Sequences, FiniteSets, TLC

(* ------------------------------ bounds --------------------------------- *)
\* WebSocket objects one controller may create in a run.
MaxSockets == 2
\* Timer delays (heartbeatInterval, timeout) range over 1..MaxDelay ticks.
MaxDelay == 2
\* #onMessage invocations suspended on `await blob.text()` at one time.
MaxDecoding == 1
\* maxReconnectAttempts ranges over 0..MaxAttempts (earlier releases).
MaxAttempts == 3
\* WebSocket objects one controller of an earlier release may create in a run.
MaxLegacySockets == MaxAttempts + 2
\* Non-positive option values range over -MaxNonPositive..0 (construction).
MaxNonPositive == 1

(* --------------------------- program state ----------------------------- *)
VARIABLES
    options,          \* #options: heartbeatInterval, reconnectDelay, timeout, messageType
    isPageVisible,    \* #isPageVisible
    webSocket,        \* #webSocket: index into sockets, or null
    isManualClosed,   \* #isManualClosed
    heartbeatTimer,   \* #heartbeatTimer: a timer id, or undefined
    reconnectTimer,   \* #reconnectTimer
    preCloseTimer,    \* #preCloseTimer
    sockets,          \* host: every WebSocket object created so far
    timers,           \* host: pending timers, in registration order
    decoding,         \* host: #onMessage invocations suspended at the await
    docVisible,       \* host: document.visibilityState === 'visible'
    reconnectAttempts,\* earlier releases: reconnectAttempts
    closedIn,         \* history: the connection state the caller last called close() in
    delays,           \* history: the delays of the reconnect timers armed since the last open
    op,               \* history: the operation of the last step
    out               \* history: what the last step did (frames, callbacks, sockets made)

vars == <<options, isPageVisible, webSocket, isManualClosed, heartbeatTimer,
          reconnectTimer, preCloseTimer, sockets, timers, decoding, docVisible,
          reconnectAttempts, closedIn, delays, op, out>>

\* A handle that holds no timer.
undefined == 0
\* A #webSocket that holds no socket.
null == 0

ReadyStates == {"CONNECTING", "OPEN", "CLOSING", "CLOSED"}
\* What an incoming frame can hold: an envelope of a reserved type, an
\* application envelope, a JSON value other than null without a type field,
\* the JSON value null, or text that is not JSON.
Frames == {"ping", "pong", "chat", "notype", "null", "nonjson"}
\* How an incoming frame is framed: ev.data is a string or a Blob.
Framings == {"text", "blob"}
\* The payloads the caller sends.
Payloads == {"chat"}
\* What the caller's callback does when the controller invokes it.
CallbackActs == {"none", "close"}
Delays == 1..MaxDelay

(* ------------------------- the state record ---------------------------- *)
State ==
    [options |-> options, isPageVisible |-> isPageVisible, webSocket |-> webSocket,
     isManualClosed |-> isManualClosed, heartbeatTimer |-> heartbeatTimer,
     reconnectTimer |-> reconnectTimer, preCloseTimer |-> preCloseTimer,
     sockets |-> sockets, timers |-> timers, decoding |-> decoding,
     closedIn |-> closedIn, out |-> <<>>]

Commit(s) ==
    /\ options' = s.options
    /\ isPageVisible' = s.isPageVisible
    /\ webSocket' = s.webSocket
    /\ isManualClosed' = s.isManualClosed
    /\ heartbeatTimer' = s.heartbeatTimer
    /\ reconnectTimer' = s.reconnectTimer
    /\ preCloseTimer' = s.preCloseTimer
    /\ sockets' = s.sockets
    /\ timers' = s.timers
    /\ decoding' = s.decoding
    /\ closedIn' = s.closedIn
    /\ out' = s.out

\* One thing a step did: ev is "new" (a WebSocket was constructed), "frame" (a
\* frame was written to socket sock: arg is the envelope's type, enc its framing)
\* or the name of the caller's callback that was invoked (arg is what it was given).
Event(ev, sock, arg, enc) == [ev |-> ev, sock |-> sock, arg |-> arg, enc |-> enc]
Emit(s, ev, sock, arg, enc) == [s EXCEPT !.out = Append(@, Event(ev, sock, arg, enc))]

(* ------------------------- host: timer facility ------------------------ *)
TimerIds(s) == {s.timers[k].id : k \in DOMAIN s.timers}

\* The id setTimeout/setInterval returns: one no pending timer and no handle holds.
FreshId(s) ==
    LET used == TimerIds(s) \cup {s.heartbeatTimer, s.reconnectTimer, s.preCloseTimer}
    IN  CHOOSE n \in 1..(Cardinality(used) + 1) : n \notin used

\* setTimeout / setInterval: the timer is registered after every pending one.
setTimer(s, id, kind, delay) ==
    [s EXCEPT !.timers = Append(@, [id |-> id, kind |-> kind, delay |-> delay, left |-> delay])]

\* clearTimeout / clearInterval: nothing happens for undefined or a fired id.
clearTimer(s, id) ==
    [s EXCEPT !.timers = SelectSeq(@, LAMBDA t : t.id # id)]

(* ------------------------- host: WebSocket ----------------------------- *)
\* new WebSocket(url)
NewSocket ==
    [readyState |-> "CONNECTING", onopen |-> FALSE, onmessage |-> FALSE,
     onclose |-> FALSE, onerror |-> FALSE, closer |-> "none", oncloseCount |-> 0]

readyState(s) == IF s.webSocket = null THEN "none" ELSE s.sockets[s.webSocket].readyState

\* WebSocket.close(): starts the closing handshake of a CONNECTING or OPEN
\* socket; the close event comes later.  `who` records the caller.
wsClose(s, i, who) ==
    IF s.sockets[i].readyState \in {"CONNECTING", "OPEN"}
    THEN [s EXCEPT !.sockets[i].readyState = "CLOSING", !.sockets[i].closer = who]
    ELSE s

\* WebSocket.send(data)
wsSend(s, i, enc, type) == Emit(s, "frame", i, type, enc)

\* JSON.stringify(data) and the framing of #options.messageType.
Encoding(s) == IF s.options.messageType = "binary" THEN "blob" ELSE "text"

(* ----------------------------- controller ------------------------------ *)
\* #stopHeartbeat that forgets the handle without clearInterval.
stopHeartbeat_NoClear(s) ==
    [s EXCEPT !.heartbeatTimer = undefined]

stopHeartbeat(s) ==
    [clearTimer(s, s.heartbeatTimer) EXCEPT !.heartbeatTimer = undefined]

\* #stopReconnect that forgets the handle without clearTimeout.
stopReconnect_NoClear(s) ==
    [s EXCEPT !.reconnectTimer = undefined]

stopReconnect(s) ==
    [clearTimer(s, s.reconnectTimer) EXCEPT !.reconnectTimer = undefined]

destroy(s) ==
    LET s1 == stopReconnect(stopHeartbeat(s))
        s2 == IF s1.preCloseTimer # undefined
              THEN [clearTimer(s1, s1.preCloseTimer) EXCEPT !.preCloseTimer = undefined]
              ELSE s1
        w  == s2.webSocket
    IN  IF w # null
        THEN LET s3 == [s2 EXCEPT !.sockets[w].onopen = FALSE,
                                  !.sockets[w].onmessage = FALSE,
                                  !.sockets[w].onclose = FALSE,
                                  !.sockets[w].onerror = FALSE]
                 s4 == IF s3.sockets[w].readyState = "OPEN"
                       THEN wsClose(s3, w, "destroy") ELSE s3
             IN  [s4 EXCEPT !.webSocket = null]
        ELSE s2

\* #connect without the early return for a CONNECTING or OPEN transport.
connect_Unguarded(s) ==
    LET s1 == destroy(s)
        i  == Len(s1.sockets) + 1
        ws == [NewSocket EXCEPT !.onopen = TRUE, !.onmessage = TRUE,
                                !.onclose = TRUE, !.onerror = TRUE]
        s2 == [s1 EXCEPT !.sockets = Append(@, ws)]
    IN  [Emit(s2, "new", i, "", "") EXCEPT !.webSocket = i]

connect(s) ==
    IF readyState(s) \in {"CONNECTING", "OPEN"}
    THEN s
    ELSE LET s1 == destroy(s)
             i  == Len(s1.sockets) + 1
             ws == [NewSocket EXCEPT !.onopen = TRUE, !.onmessage = TRUE,
                                     !.onclose = TRUE, !.onerror = TRUE]
             s2 == [s1 EXCEPT !.sockets = Append(@, ws)]
         IN  [Emit(s2, "new", i, "", "") EXCEPT !.webSocket = i]

\* send() without the readyState guard: writes to whatever socket is held.
send_Unguarded(s, data) ==
    IF s.webSocket # null
    THEN wsSend(s, s.webSocket, Encoding(s), data)
    ELSE s

send(s, data) ==
    IF readyState(s) = "OPEN"
    THEN wsSend(s, s.webSocket, Encoding(s), data)
    ELSE s

\* close() that also notifies the caller itself, on every call.
close_NotifiesCaller(s) ==
    Emit(destroy([s EXCEPT !.isManualClosed = TRUE]), "onclose", s.webSocket, "", "")

close(s) ==
    destroy([s EXCEPT !.isManualClosed = TRUE])

\* The connection state of the design (Connecting, Open, Closing, Reconnecting,
\* ManuallyClosed, Idle) as the controller's fields encode it.
ConnectionState(s) ==
    CASE readyState(s) = "CONNECTING"      -> "Connecting"
      [] readyState(s) = "OPEN"            -> "Open"
      [] s.webSocket # null                -> "Closing"
      [] s.reconnectTimer # undefined      -> "Reconnecting"
      [] s.isManualClosed                  -> "ManuallyClosed"
      [] OTHER                             -> "Idle"

\* The caller's call of close(), with the state it was called in remembered.
callerClose(s) ==
    close([s EXCEPT !.closedIn = ConnectionState(s)])

preClose(s) ==
    LET id == FreshId(s)
    IN  [setTimer(s, id, "preClose", s.options.timeout) EXCEPT !.preCloseTimer = id]

\* #sendHeartbeat without the readyState check: pings whatever transport is held.
sendHeartbeat_Unguarded(s) ==
    IF s.webSocket = null
    THEN s
    ELSE preClose(wsSend(s, s.webSocket, Encoding(s), "ping"))

sendHeartbeat(s) ==
    IF readyState(s) # "OPEN"
    THEN stopHeartbeat(s)
    ELSE preClose(wsSend(s, s.webSocket, Encoding(s), "ping"))

\* #startHeartbeat that arms the interval and leaves the first ping to its first tick.
startHeartbeat_NoFirstPing(s) ==
    LET s1 == stopHeartbeat(s)
    IN  IF readyState(s1) = "OPEN" /\ s1.isPageVisible
        THEN LET id == FreshId(s1)
             IN  [setTimer(s1, id, "heartbeat", s1.options.heartbeatInterval)
                     EXCEPT !.heartbeatTimer = id]
        ELSE s1

startHeartbeat(s) ==
    LET s1 == stopHeartbeat(s)
    IN  IF readyState(s1) = "OPEN" /\ s1.isPageVisible
        THEN LET s2 == sendHeartbeat(s1)
                 id == FreshId(s2)
             IN  [setTimer(s2, id, "heartbeat", s2.options.heartbeatInterval)
                     EXCEPT !.heartbeatTimer = id]
        ELSE s1

reconnect(s) ==
    LET s1 == stopReconnect(s)
    IN  IF s1.isPageVisible
        THEN LET id == FreshId(s1)
             IN  [setTimer(s1, id, "reconnect", s1.options.reconnectDelay)
                     EXCEPT !.reconnectTimer = id]
        ELSE s1

(* ------------------------ the caller's callbacks ----------------------- *)
\* this.onopen / onmessage / onclose / onerror: the caller's function runs
\* inside the handler and may call the public API before it returns.
callback(s, name, i, arg, act) ==
    LET s1 == Emit(s, name, i, arg, "")
    IN  CASE act = "close" -> callerClose(s1)
          [] OTHER         -> s1

(* --------------------------- event handlers ---------------------------- *)
\* #onOpen that starts the heartbeat before it notifies the caller.
onOpen_HeartbeatFirst(s, i, act) ==
    callback(startHeartbeat(stopHeartbeat(s)), "onopen", i, "", act)

onOpen(s, i, act) ==
    startHeartbeat(stopHeartbeat(callback(s, "onopen", i, "", act)))

\* JSON.parse(jsonData) and the read of data.type: text that is not JSON makes
\* JSON.parse throw; null parses and the read of its type throws; any other
\* JSON value without a type field parses and has no type.
Parse(frame) ==
    CASE frame = "nonjson" -> [ok |-> FALSE, type |-> ""]
      [] frame = "null"    -> [ok |-> FALSE, type |-> ""]
      [] frame = "notype"  -> [ok |-> TRUE, type |-> ""]
      [] OTHER             -> [ok |-> TRUE, type |-> frame]

\* #onMessage from JSON.parse on: what runs after the await in binary mode,
\* and the whole handler in json mode.
onMessageBody(s, i, frame, act) ==
    LET data == Parse(frame)
    IN  IF ~data.ok
        THEN Emit(s, "rejected", i, frame, "")
        ELSE IF data.type = "pong" /\ s.preCloseTimer # undefined
             THEN [clearTimer(s, s.preCloseTimer) EXCEPT !.preCloseTimer = undefined]
             ELSE callback(s, "onmessage", i, frame, act)

\* #onMessage up to its first suspension.  In binary mode a string has no
\* text() method and the call throws before anything is awaited; in json mode
\* a Blob handed to JSON.parse is read as "[object Blob]" and the parse throws.
onMessage(s, i, frame, framing, act) ==
    IF s.options.messageType = "binary"
    THEN IF framing = "blob"
         THEN [s EXCEPT !.decoding = Append(@, [sock |-> i, frame |-> frame])]
         ELSE Emit(s, "rejected", i, frame, "")
    ELSE IF framing = "text"
         THEN onMessageBody(s, i, frame, act)
         ELSE Emit(s, "rejected", i, frame, "")

\* #onClose that arms the reconnect timer before it notifies the caller.
onClose_ReconnectBeforeCallback(s, i, act) ==
    LET s1 == destroy(s)
        s2 == IF ~s1.isManualClosed THEN reconnect(s1) ELSE s1
    IN  callback([s2 EXCEPT !.sockets[i].oncloseCount = @ + 1], "onclose", i, "", act)

\* #onClose with the hand-off to #reconnect placed before the teardown.
onClose_ReconnectFirst(s, i, act) ==
    LET s1 == IF ~s.isManualClosed THEN reconnect(s) ELSE s
        s2 == destroy(s1)
    IN  callback([s2 EXCEPT !.sockets[i].oncloseCount = @ + 1], "onclose", i, "", act)

onClose(s, i, act) ==
    LET s1 == destroy(s)
        s2 == callback([s1 EXCEPT !.sockets[i].oncloseCount = @ + 1], "onclose", i, "", act)
    IN  IF ~s2.isManualClosed THEN reconnect(s2) ELSE s2

\* #onError that forwards the event and leaves the transport alone.
onError_NoClose(s, i, act) ==
    callback(s, "onerror", i, "", act)

\* #onError that notifies the caller's onclose itself when it closes the
\* transport, with the transport's close listener left in place.
onError_NotifiesClose(s, i, act) ==
    LET s1 == callback(s, "onerror", i, "", act)
    IN  IF readyState(s1) = "OPEN"
        THEN LET s2 == wsClose(s1, s1.webSocket, "onError")
             IN  callback([s2 EXCEPT !.sockets[i].oncloseCount = @ + 1],
                          "onclose", i, "", "none")
        ELSE s1

\* #onError that closes the transport it holds whatever its readyState.
onError_ClosesAny(s, i, act) ==
    LET s1 == callback(s, "onerror", i, "", act)
    IN  IF s1.webSocket # null THEN wsClose(s1, s1.webSocket, "onError") ELSE s1

onError(s, i, act) ==
    LET s1 == callback(s, "onerror", i, "", act)
    IN  IF readyState(s1) = "OPEN" THEN wsClose(s1, s1.webSocket, "onError") ELSE s1

\* A visibilitychange listener that resumes through #reconnect's timer.
onVisibilityChange_ViaReconnect(s, visible) ==
    LET s1 == [s EXCEPT !.isPageVisible = visible]
    IN  IF s1.isPageVisible THEN reconnect(s1) ELSE destroy(s1)

\* The constructor's visibilitychange listener.
onVisibilityChange(s, visible) ==
    LET s1 == [s EXCEPT !.isPageVisible = visible]
    IN  IF s1.isPageVisible THEN connect(s1) ELSE destroy(s1)

(* --------------------------- timer callbacks --------------------------- *)
\* The probe-timeout callback without the close of the transport.
preCloseCallback_NoClose(s) ==
    [clearTimer(s, s.preCloseTimer) EXCEPT !.preCloseTimer = undefined]

\* The callback #preClose hands to setTimeout.
preCloseCallback(s) ==
    LET s1 == IF s.webSocket # null THEN wsClose(s, s.webSocket, "preClose") ELSE s
    IN  [clearTimer(s1, s1.preCloseTimer) EXCEPT !.preCloseTimer = undefined]

\* The callback #reconnect hands to setTimeout.
\* The reconnect callback that goes through #reconnect again instead of
\* #connect: it arms another timer and constructs nothing.
reconnectCallback_Rearm(s) ==
    reconnect([s EXCEPT !.isManualClosed = FALSE])

reconnectCallback(s) ==
    connect([s EXCEPT !.isManualClosed = FALSE])

\* A timer is due when its time has run out and no timer registered before it,
\* with a delay no longer than its own, is still waiting to run.
Due(k) ==
    /\ timers[k].left = 0
    /\ \A j \in 1..(k - 1) : ~(timers[j].left = 0 /\ timers[j].delay <= timers[k].delay)

\* The host runs timer k: a timeout is gone when its callback starts, an
\* interval is registered again after its callback unless the callback cleared it.
runTimer(s, k) ==
    LET t    == s.timers[k]
        gone == clearTimer(s, t.id)
    IN  CASE t.kind = "preClose"  -> preCloseCallback(gone)
          [] t.kind = "reconnect" -> reconnectCallback(gone)
          [] OTHER ->
               LET s1 == sendHeartbeat(s)
               IN  IF t.id \in TimerIds(s1)
                   THEN setTimer(clearTimer(s1, t.id), t.id, t.kind, t.delay)
                   ELSE s1

(* ------------------------------- actions ------------------------------- *)
\* One step of the program: the handler's result becomes the next state.
Step(name, sock, arg, s) ==
    \E next \in {s} :
        /\ Len(next.sockets) <= MaxSockets
        /\ Commit(next)
        /\ op' = [name |-> name, sock |-> sock, arg |-> arg]
        /\ UNCHANGED <<reconnectAttempts, delays>>

Sockets == DOMAIN sockets
SetReadyState(s, i, rs) == [s EXCEPT !.sockets[i].readyState = rs]

\* The state the constructor leaves: options merged, #connect() called.
Init ==
    /\ options \in [heartbeatInterval : Delays, reconnectDelay : {1}, timeout : Delays,
                     messageType : {"json", "binary"}]
    /\ docVisible \in BOOLEAN
    /\ isPageVisible = TRUE
    /\ isManualClosed = FALSE
    /\ heartbeatTimer = undefined
    /\ reconnectTimer = undefined
    /\ preCloseTimer = undefined
    /\ webSocket = 1
    /\ sockets = <<[NewSocket EXCEPT !.onopen = TRUE, !.onmessage = TRUE,
                                     !.onclose = TRUE, !.onerror = TRUE]>>
    /\ timers = <<>>
    /\ decoding = <<>>
    /\ closedIn = ""
    /\ reconnectAttempts = 0
    /\ delays = <<>>
    /\ op = [name |-> "constructor", sock |-> 1, arg |-> ""]
    /\ out = <<Event("new", 1, "", "")>>

\* The caller calls send(data).
Send ==
    /\ \E data \in Payloads : Step("send", webSocket, data, send(State, data))
    /\ UNCHANGED docVisible

\* The caller calls close().
Close ==
    /\ Step("close", webSocket, "", callerClose(State))
    /\ UNCHANGED docVisible

\* The connection of socket i is established: readyState OPEN, open event.
SockOpenA(acts) ==
    /\ \E i \in Sockets, act \in acts :
          /\ sockets[i].readyState = "CONNECTING"
          /\ LET s == SetReadyState(State, i, "OPEN")
             IN  IF sockets[i].onopen
                 THEN Step("open", i, act, onOpen(s, i, act))
                 ELSE act = "none" /\ Step("open", i, act, s)
    /\ UNCHANGED docVisible

\* A frame arrives on OPEN socket i and its onmessage handler is attached.
SockMessageA(frames, acts) ==
    /\ \E i \in Sockets, frame \in frames, framing \in Framings, act \in acts :
          /\ sockets[i].readyState = "OPEN"
          /\ sockets[i].onmessage
          /\ (options.messageType = "binary" /\ framing = "blob")
                => Len(decoding) < MaxDecoding
          /\ (options.messageType = "binary" \/ framing = "blob") => act = "none"
          /\ Step("message", i, frame, onMessage(State, i, frame, framing, act))
    /\ UNCHANGED docVisible

\* blob.text() resolves: the oldest suspended #onMessage continues.
DecodeResumeA(acts) ==
    /\ decoding # <<>>
    /\ \E act \in acts :
          LET d == Head(decoding)
              s == [State EXCEPT !.decoding = Tail(@)]
          IN  Step("decoded", d.sock, d.frame, onMessageBody(s, d.sock, d.frame, act))
    /\ UNCHANGED docVisible

\* An error event on socket i whose onerror handler is attached.
SockErrorA(acts) ==
    /\ \E i \in Sockets, act \in acts :
          /\ sockets[i].readyState # "CLOSED"
          /\ sockets[i].onerror
          /\ Step("error", i, act, onError(State, i, act))
    /\ UNCHANGED docVisible

\* The connection of socket i is gone (closing handshake done, peer closed,
\* network lost, connection attempt failed): readyState CLOSED, close event.
SockCloseA(from, acts) ==
    /\ \E i \in Sockets, act \in acts :
          /\ sockets[i].readyState \in from
          /\ LET s == [State EXCEPT !.sockets[i].readyState = "CLOSED",
                                    !.sockets[i].closer =
                                        IF @ = "none" THEN "peer" ELSE @]
             IN  IF sockets[i].onclose
                 THEN Step("closed", i, act, onClose(s, i, act))
                 ELSE act = "none" /\ Step("closed", i, act, s)
    /\ UNCHANGED docVisible

\* The page goes to the background or comes back: visibilitychange event.
VisibilityChange ==
    /\ docVisible' = ~docVisible
    /\ Step("visibilitychange", webSocket, IF docVisible' THEN "visible" ELSE "hidden",
            onVisibilityChange(State, docVisible'))

\* The host runs a due timer's callback.
TimerFire ==
    /\ \E k \in DOMAIN timers :
          /\ Due(k)
          /\ Step(timers[k].kind, webSocket, "", runTimer(State, k))
    /\ UNCHANGED docVisible

\* Time passes: no timer is due, every pending timer is one tick closer.
Tick ==
    /\ timers # <<>>
    /\ \A k \in DOMAIN timers : timers[k].left > 0
    /\ Step("tick", webSocket, "",
            [State EXCEPT !.timers = [k \in DOMAIN timers |->
                                        [timers[k] EXCEPT !.left = @ - 1]]])
    /\ UNCHANGED docVisible

SockOpen == SockOpenA(CallbackActs)
SockMessage == SockMessageA(Frames, CallbackActs)
DecodeResume == DecodeResumeA(CallbackActs)
SockError == SockErrorA(CallbackActs)
SockClose == SockCloseA(ReadyStates \ {"CLOSED"}, CallbackActs)

Next ==
    \/ Send
    \/ Close
    \/ SockOpen
    \/ SockMessage
    \/ DecodeResume
    \/ SockError
    \/ SockClose
    \/ VisibilityChange
    \/ TimerFire
    \/ Tick

Spec == Init /\ [][Next]_vars

(***************************************************************************)
(* The run of the liveness claim: the peer answers no ping, the page's     *)
(* visibility does not change, and the caller never calls close().  The    *)
(* host runs due timers, lets time pass, and finishes a closing handshake. *)
(***************************************************************************)
Unanswered == Frames \ {"pong"}
SockOpenQuiet == SockOpenA({"none"})
SockMessageQuiet == SockMessageA(Unanswered, {"none"})
DecodeResumeQuiet == DecodeResumeA({"none"})
SockErrorQuiet == SockErrorA({"none"})
SockCloseQuiet == SockCloseA(ReadyStates \ {"CLOSED"}, {"none"})
SockCloseDone == SockCloseA({"CLOSING"}, {"none"})

NextLive ==
    \/ Send
    \/ SockOpenQuiet
    \/ SockMessageQuiet
    \/ DecodeResumeQuiet
    \/ SockErrorQuiet
    \/ SockCloseQuiet
    \/ TimerFire
    \/ Tick

LiveSpec ==
    /\ Init
    /\ [][NextLive]_vars
    /\ WF_vars(TimerFire)
    /\ WF_vars(Tick)
    /\ WF_vars(SockCloseDone)

(***************************************************************************)
(* The run of the close() liveness claim: as above, and the caller may     *)
(* call close() at any moment.                                             *)
(***************************************************************************)
NextCloseLive ==
    \/ Send
    \/ Close
    \/ SockOpenQuiet
    \/ SockMessageQuiet
    \/ DecodeResumeQuiet
    \/ SockErrorQuiet
    \/ SockCloseQuiet
    \/ TimerFire
    \/ Tick

CloseLiveSpec ==
    /\ Init
    /\ [][NextCloseLive]_vars
    /\ WF_vars(TimerFire)
    /\ WF_vars(Tick)
    /\ WF_vars(SockCloseDone)

TypeOK ==
    /\ webSocket \in 0..Len(sockets)
    /\ Len(sockets) <= MaxSockets
    /\ \A i \in Sockets : sockets[i].readyState \in ReadyStates

(***************************************************************************)
(* The earlier releases of the class, which count reconnect attempts:      *)
(*   v1  src/unnamed/part_001 (compiled: src/dist/index.js, lines 1-174),  *)
(*       options heartbeatMessage and maxReconnectAttempts;                *)
(*   v2  src/unnamed/part_002, lines 30-306, options maxReconnectAttempts  *)
(*       and maxReconnectInterval, JSON envelopes.                         *)
(* They have no close(), no probe timeout and no visibility listener.      *)
(* Their fields ws, heartbeatTimer and reconnectTimer are held in the      *)
(* variables webSocket, heartbeatTimer and reconnectTimer.                 *)
(***************************************************************************)
LegacyState ==
    [options |-> options, ws |-> webSocket, heartbeatTimer |-> heartbeatTimer,
     reconnectTimer |-> reconnectTimer, reconnectAttempts |-> reconnectAttempts,
     sockets |-> sockets, timers |-> timers, delays |-> delays, out |-> <<>>]

LegacyCommit(s) ==
    /\ options' = s.options
    /\ webSocket' = s.ws
    /\ heartbeatTimer' = s.heartbeatTimer
    /\ reconnectTimer' = s.reconnectTimer
    /\ reconnectAttempts' = s.reconnectAttempts
    /\ sockets' = s.sockets
    /\ timers' = s.timers
    /\ delays' = s.delays
    /\ out' = s.out
    /\ UNCHANGED <<isPageVisible, isManualClosed, preCloseTimer, decoding, closedIn>>

\* new WebSocket(url) with the four handlers, which are never detached;
\* opened records whether the socket has ever been OPEN.
LegacySocket == [readyState |-> "CONNECTING", opened |-> FALSE]

\* The id setTimeout/setInterval returns.
LegacyFreshId(s) ==
    LET used == TimerIds(s) \cup {s.heartbeatTimer, s.reconnectTimer}
    IN  CHOOSE n \in 1..(Cardinality(used) + 1) : n \notin used

LegacyReadyState(s) == IF s.ws = null THEN "none" ELSE s.sockets[s.ws].readyState

(* --------------------------- v1: part_001 ------------------------------ *)
connect_v1(s) ==
    LET i == Len(s.sockets) + 1
    IN  [Emit([s EXCEPT !.sockets = Append(@, LegacySocket)], "new", i, "", "")
            EXCEPT !.ws = i]

stopHeartbeat_v1(s) ==
    IF s.heartbeatTimer # null
    THEN [clearTimer(s, s.heartbeatTimer) EXCEPT !.heartbeatTimer = null]
    ELSE s

startHeartbeat_v1(s) ==
    LET s1 == stopHeartbeat_v1(s)
        id == LegacyFreshId(s1)
    IN  [setTimer(s1, id, "heartbeat", s1.options.heartbeatInterval)
            EXCEPT !.heartbeatTimer = id]

\* The callback startHeartbeat hands to setInterval.
heartbeatCallback_v1(s) ==
    IF LegacyReadyState(s) = "OPEN"
    THEN wsSend(s, s.ws, "text", s.options.heartbeatMessage)
    ELSE s

resetHeartbeat_v1(s) == startHeartbeat_v1(stopHeartbeat_v1(s))

\* reconnect with the ceiling test off by one.
reconnect_v1_OneMore(s) ==
    IF s.options.maxReconnectAttempts = 0
          \/ s.reconnectAttempts <= s.options.maxReconnectAttempts
    THEN IF s.reconnectTimer = null
         THEN LET id == LegacyFreshId(s)
              IN  [setTimer(s, id, "reconnect", s.options.reconnectInterval)
                      EXCEPT !.reconnectTimer = id,
                             !.delays = Append(@, s.options.reconnectInterval)]
         ELSE s
    ELSE s

reconnect_v1(s) ==
    IF s.options.maxReconnectAttempts = 0
          \/ s.reconnectAttempts < s.options.maxReconnectAttempts
    THEN IF s.reconnectTimer = null
         THEN LET id == LegacyFreshId(s)
              IN  [setTimer(s, id, "reconnect", s.options.reconnectInterval)
                      EXCEPT !.reconnectTimer = id,
                             !.delays = Append(@, s.options.reconnectInterval)]
         ELSE s
    ELSE s

\* The reconnect callback that counts the attempt twice.
reconnectCallback_v1_CountsTwice(s) ==
    [connect_v1([s EXCEPT !.reconnectAttempts = @ + 2]) EXCEPT !.reconnectTimer = null]

\* The callback reconnect hands to setTimeout.
reconnectCallback_v1(s) ==
    [connect_v1([s EXCEPT !.reconnectAttempts = @ + 1]) EXCEPT !.reconnectTimer = null]

\* onOpen that leaves the attempt counter as it is.
onOpen_v1_NoReset(s, i) ==
    startHeartbeat_v1(Emit(s, "onopen", i, "", ""))

onOpen_v1(s, i) ==
    startHeartbeat_v1([Emit(s, "onopen", i, "", "") EXCEPT !.reconnectAttempts = 0])

onMessage_v1(s, i, frame) ==
    LET s1 == Emit(s, "onmessage", i, frame, "")
    IN  IF frame = "pong" THEN resetHeartbeat_v1(s1) ELSE s1

onClose_v1(s, i) ==
    reconnect_v1(stopHeartbeat_v1(Emit(s, "onclose", i, "", "")))

onError_v1(s, i) == Emit(s, "onerror", i, "", "")

send_v1(s, message) ==
    IF LegacyReadyState(s) = "OPEN" THEN wsSend(s, s.ws, "text", message) ELSE s

(* ---------------------- v2: part_002, lines 30-306 --------------------- *)
connect_v2(s) == connect_v1(s)

stopHeartbeat_v2(s) == stopHeartbeat_v1(s)

startHeartbeat_v2(s) ==
    LET s1 == stopHeartbeat_v2(s)
        id == LegacyFreshId(s1)
    IN  [setTimer(s1, id, "heartbeat", s1.options.heartbeatInterval)
            EXCEPT !.heartbeatTimer = id]

\* The callback startHeartbeat hands to setInterval: JSON.stringify({type:'ping'}).
heartbeatCallback_v2(s) ==
    IF LegacyReadyState(s) = "OPEN"
    THEN wsSend(s, s.ws, "text", "ping")
    ELSE s

resetHeartbeat_v2(s) == startHeartbeat_v2(stopHeartbeat_v2(s))

cleanup_v2(s) ==
    LET s1 == stopHeartbeat_v2(s)
    IN  IF s1.reconnectTimer # null
        THEN [clearTimer(s1, s1.reconnectTimer) EXCEPT !.reconnectTimer = null]
        ELSE s1

reconnect_v2(s) ==
    IF s.options.maxReconnectAttempts = 0
          \/ s.reconnectAttempts < s.options.maxReconnectAttempts
    THEN IF s.reconnectTimer = null
         THEN LET id == LegacyFreshId(s)
              IN  [setTimer(s, id, "reconnect", s.options.reconnectInterval)
                      EXCEPT !.reconnectTimer = id,
                             !.delays = Append(@, s.options.reconnectInterval)]
         ELSE s
    ELSE s

reconnectCallback_v2(s) ==
    [connect_v2([s EXCEPT !.reconnectAttempts = @ + 1]) EXCEPT !.reconnectTimer = null]

onOpen_v2(s, i) ==
    startHeartbeat_v2([Emit(s, "onopen", i, "", "") EXCEPT !.reconnectAttempts = 0])

\* try { JSON.parse ... } catch (error) { this.log(error) }
onMessage_v2(s, i, frame) ==
    LET message == Parse(frame)
    IN  IF ~message.ok
        THEN s
        ELSE IF message.type = "pong"
             THEN resetHeartbeat_v2(s)
             ELSE Emit(s, "onmessage", i, frame, "")

onClose_v2(s, i) ==
    reconnect_v2(cleanup_v2(Emit(s, "onclose", i, "", "")))

onError_v2(s, i) == Emit(s, "onerror", i, "", "")

send_v2(s, message) ==
    IF LegacyReadyState(s) = "OPEN" THEN wsSend(s, s.ws, "text", message) ELSE s

(* ------------------- actions of the earlier releases ------------------- *)
LegacyStep(name, sock, arg, s) ==
    \E next \in {s} :
        /\ Len(next.sockets) <= MaxLegacySockets
        /\ LegacyCommit(next)
        /\ op' = [name |-> name, sock |-> sock, arg |-> arg]

\* What event.data can hold: v1 compares the raw text with 'pong', v2 parses JSON.
LegacyFrames(v) == IF v = 1 THEN {"pong", "chat"} ELSE Frames

\* The host runs timer k of release v.
LegacyRunTimer(v, s, k) ==
    LET t    == s.timers[k]
        gone == clearTimer(s, t.id)
    IN  IF t.kind = "reconnect"
        THEN IF v = 1 THEN reconnectCallback_v1(gone) ELSE reconnectCallback_v2(gone)
        ELSE LET s1 == IF v = 1 THEN heartbeatCallback_v1(s) ELSE heartbeatCallback_v2(s)
             IN  setTimer(clearTimer(s1, t.id), t.id, t.kind, t.delay)

\* The state the constructor leaves: options stored, connect() called.
LegacyInit ==
    /\ webSocket = 1
    /\ heartbeatTimer = null
    /\ reconnectTimer = null
    /\ reconnectAttempts = 0
    /\ sockets = <<LegacySocket>>
    /\ timers = <<>>
    /\ delays = <<>>
    /\ op = [name |-> "constructor", sock |-> 1, arg |-> ""]
    /\ out = <<Event("new", 1, "", "")>>
    /\ isPageVisible = TRUE
    /\ isManualClosed = FALSE
    /\ preCloseTimer = undefined
    /\ decoding = <<>>
    /\ docVisible = TRUE
    /\ closedIn = ""

InitV1 ==
    /\ options \in [heartbeatInterval : Delays, reconnectInterval : {1},
                     heartbeatMessage : {"ping"}, maxReconnectAttempts : 0..MaxAttempts]
    /\ LegacyInit

InitV2 ==
    /\ options \in [heartbeatInterval : Delays, reconnectInterval : Delays,
                     maxReconnectAttempts : 0..MaxAttempts, maxReconnectInterval : Delays]
    /\ LegacyInit

\* The caller calls send(message).
LSend(v) ==
    /\ \E message \in Payloads :
          LegacyStep("send", webSocket, message,
                     IF v = 1 THEN send_v1(LegacyState, message)
                              ELSE send_v2(LegacyState, message))
    /\ UNCHANGED docVisible

\* The connection of socket i is established.  A successful open ends the run
\* of consecutive closures the history of delays is about.
LOpen(v) ==
    /\ \E i \in Sockets :
          /\ sockets[i].readyState = "CONNECTING"
          /\ LET s == [LegacyState EXCEPT !.sockets[i].readyState = "OPEN",
                                          !.sockets[i].opened = TRUE,
                                          !.delays = <<>>]
             IN  LegacyStep("open", i, "", IF v = 1 THEN onOpen_v1(s, i) ELSE onOpen_v2(s, i))
    /\ UNCHANGED docVisible

\* A frame arrives on OPEN socket i.
LMessage(v) ==
    /\ \E i \in Sockets, frame \in LegacyFrames(v) :
          /\ sockets[i].readyState = "OPEN"
          /\ LegacyStep("message", i, frame,
                        IF v = 1 THEN onMessage_v1(LegacyState, i, frame)
                                 ELSE onMessage_v2(LegacyState, i, frame))
    /\ UNCHANGED docVisible

\* An error event on socket i.
LError(v) ==
    /\ \E i \in Sockets :
          /\ sockets[i].readyState # "CLOSED"
          /\ LegacyStep("error", i, "",
                        IF v = 1 THEN onError_v1(LegacyState, i) ELSE onError_v2(LegacyState, i))
    /\ UNCHANGED docVisible

\* The connection of socket i is gone: readyState CLOSED, close event.
LClose(v) ==
    /\ \E i \in Sockets :
          /\ sockets[i].readyState # "CLOSED"
          /\ LET s == [LegacyState EXCEPT !.sockets[i].readyState = "CLOSED"]
             IN  LegacyStep("closed", i, "", IF v = 1 THEN onClose_v1(s, i) ELSE onClose_v2(s, i))
    /\ UNCHANGED docVisible

\* The host runs a due timer's callback.
LTimerFire(v) ==
    /\ \E k \in DOMAIN timers :
          /\ Due(k)
          /\ LegacyStep(timers[k].kind, webSocket, "", LegacyRunTimer(v, LegacyState, k))
    /\ UNCHANGED docVisible

\* Time passes.
LTick ==
    /\ timers # <<>>
    /\ \A k \in DOMAIN timers : timers[k].left > 0
    /\ LegacyStep("tick", webSocket, "",
                  [LegacyState EXCEPT !.timers = [k \in DOMAIN timers |->
                                                    [timers[k] EXCEPT !.left = @ - 1]]])
    /\ UNCHANGED docVisible

LegacyNext(v) ==
    \/ LSend(v)
    \/ LOpen(v)
    \/ LMessage(v)
    \/ LError(v)
    \/ LClose(v)
    \/ LTimerFire(v)
    \/ LTick

NextV1 == LegacyNext(1)
NextV2 == LegacyNext(2)

SpecV1 == InitV1 /\ [][NextV1]_vars
SpecV2 == InitV2 /\ [][NextV2]_vars

(***************************************************************************)
(* Construction (src/src/index.ts): the caller passes options, the         *)
(* constructor merges them over the defaults and calls #connect().         *)
(***************************************************************************)
\* The values the caller may pass for an interval, non-positive ones included.
OptionValues == (0 - MaxNonPositive)..MaxDelay

\* constructor(url, options)
constructor(s, opts) ==
    connect([s EXCEPT !.options = opts])

\* Before `new WebSocketWithHeartbeat(url, options)`: the fields as declared,
\* with the options the caller is about to pass.
ConstructInit ==
    /\ options \in [heartbeatInterval : OptionValues, reconnectDelay : OptionValues,
                     timeout : OptionValues, messageType : {"json", "binary"}]
    /\ docVisible = TRUE
    /\ isPageVisible = TRUE
    /\ isManualClosed = FALSE
    /\ heartbeatTimer = undefined
    /\ reconnectTimer = undefined
    /\ preCloseTimer = undefined
    /\ webSocket = null
    /\ sockets = <<>>
    /\ timers = <<>>
    /\ decoding = <<>>
    /\ closedIn = ""
    /\ reconnectAttempts = 0
    /\ delays = <<>>
    /\ op = [name |-> "none", sock |-> 0, arg |-> ""]
    /\ out = <<>>

Construct ==
    /\ op.name = "none"
    /\ Step("constructor", 1, "", constructor(State, options))
    /\ UNCHANGED docVisible

ConstructSpec == ConstructInit /\ [][Construct]_vars

(***************************************************************************)
(*                              The claims                                 *)
(***************************************************************************)
\* The controller's own state and the host's: everything but the history.
ctrl == <<options, isPageVisible, webSocket, isManualClosed, heartbeatTimer,
          reconnectTimer, preCloseTimer, sockets, timers, decoding, docVisible>>

PendingTimers(kind) == {k \in DOMAIN timers : timers[k].kind = kind}
Did(ev) == {k \in DOMAIN out : out[k].ev = ev}

\* C1: send(payload) writes exactly one frame, to the current transport, when
\* that transport's readyState is OPEN; in every other situation (no transport,
\* CONNECTING, CLOSING, CLOSED, the controller's page flag hidden) it writes
\* nothing; and in no case does it change the controller's state.
C1_SendWritesIffOpen ==
    [][op'.name = "send" =>
          /\ UNCHANGED ctrl
          /\ IF readyState(State) = "OPEN"
             THEN out' = <<Event("frame", webSocket, op'.arg, Encoding(State))>>
             ELSE out' = <<>>
          /\ ~isPageVisible => out' = <<>>]_vars

\* C1 witness: a send() that found the transport OPEN and wrote its one frame.
C1_Witness ==
    /\ op.name = "send"
    /\ webSocket # null
    /\ sockets[webSocket].readyState = "OPEN"
    /\ Len(out) = 1
    /\ out[1].ev = "frame" /\ out[1].sock = webSocket /\ out[1].arg = "chat"

\* C2: after the caller calls close() while the controller is Open or
\* Reconnecting, no later step (timer, socket event, visibility event)
\* constructs another transport.
C2_NoTransportAfterClose ==
    closedIn \in {"Open", "Reconnecting"} => Did("new") = {}

\* C3: when a probe-timeout timer fires while a transport is held, that
\* transport is closed (no longer CONNECTING or OPEN); and when the closure of a
\* transport the probe timeout closed reaches the controller with the page
\* visible and close() not called, exactly one reconnect timer is pending.
C3_ProbeTimeoutReconnectsOnce ==
    /\ (op.name = "preClose" /\ webSocket # null)
          => sockets[webSocket].readyState \in {"CLOSING", "CLOSED"}
    /\ (/\ op.name = "closed"
        /\ sockets[op.sock].closer = "preClose"
        /\ Did("onclose") # {}
        /\ isPageVisible /\ ~isManualClosed)
          => /\ Cardinality(PendingTimers("reconnect")) = 1
             /\ reconnectTimer # undefined

\* C3 witness: the close event of a transport the probe timeout closed has been
\* handled, page visible, close() never called, and one reconnect timer pends.
C3_Witness ==
    /\ op.name = "closed"
    /\ sockets[op.sock].closer = "preClose"
    /\ Did("onclose") # {}
    /\ isPageVisible /\ docVisible /\ ~isManualClosed /\ closedIn = ""
    /\ Cardinality(PendingTimers("reconnect")) = 1

\* A pong of the current transport has just been processed by #onMessage.
PongProcessed ==
    /\ op.arg = "pong"
    /\ op.sock = webSocket
    /\ Did("rejected") = {}
    /\ \/ op.name = "message" /\ options.messageType = "json"
       \/ op.name = "decoded"

\* C4: once a pong of the current transport has been processed, no probe
\* timeout armed before it is still pending (so none can force-close the
\* transport on account of a probe the pong came in time for).
C4_PongCancelsProbeTimeout ==
    PongProcessed => PendingTimers("preClose") = {}

\* C5: the caller's onmessage is never invoked with an envelope of type
\* "ping" or "pong".
C5_NoHeartbeatEnvelopeToCaller ==
    \A k \in Did("onmessage") : out[k].arg \notin {"ping", "pong"}

\* C6: when the controller handles a transport's close event with the page
\* visible and no close() by the caller, the heartbeat timer and every probe
\* timer are cancelled and a reconnect timer is armed.
C6_UnexpectedCloseCancelsAndRearms ==
    (/\ op.name = "closed"
     /\ Did("onclose") # {}
     /\ isPageVisible /\ ~isManualClosed)
       => /\ heartbeatTimer = undefined /\ PendingTimers("heartbeat") = {}
          /\ preCloseTimer = undefined /\ PendingTimers("preClose") = {}
          /\ Cardinality(PendingTimers("reconnect")) = 1

\* C7: (peer answers no ping, visibility unchanged, close() never called, fair
\* timers and closing handshakes) a transport that is current and OPEN is
\* eventually CLOSED and a newer transport has been constructed.
C7_UnansweredProbeReconnects ==
    \A i \in 1..(MaxSockets - 1) :
        (Len(sockets) >= i /\ webSocket = i /\ sockets[i].readyState = "OPEN")
            ~> (Len(sockets) > i /\ sockets[i].readyState = "CLOSED")

\* C7 witness: the reconnect timer has just constructed the transport that
\* replaces one the probe timeout closed.
C7_Witness ==
    /\ op.name = "reconnect"
    /\ Did("new") # {}
    /\ sockets[1].closer = "preClose" /\ sockets[1].readyState = "CLOSED"
    /\ webSocket = 2

\* C8: once the caller has called close(), no transport of the controller is
\* CONNECTING or OPEN.
C8_NoLiveTransportAfterClose ==
    closedIn # "" => \A i \in Sockets : sockets[i].readyState \notin {"CONNECTING", "OPEN"}

\* C9: once the caller has called close(), no timer callback of the
\* controller runs, and when close() returns no timer is pending.
C9_NoTimerAfterClose ==
    closedIn # "" =>
        /\ op.name \notin {"heartbeat", "preClose", "reconnect"}
        /\ op.name = "close" => timers = <<>>

\* C10: from every reachable state, close() called twice in succession ends in
\* the state one call ends in (flags, timer handles, pending timers, transport
\* reference, sockets) with nothing further notified or written by the second
\* call; and no transport's close has been notified to the caller's onclose
\* more than once.
C10_CloseIdempotent ==
    LET once  == close(State)
        twice == close(once)
    IN  /\ twice = once
        /\ \A i \in DOMAIN twice.sockets : twice.sockets[i].oncloseCount <= 1

\* C10 witness: close() has just been called on a controller that an earlier
\* close() of an OPEN transport had already left manually closed.
C10_Witness ==
    /\ op.name = "close"
    /\ closedIn = "ManuallyClosed"
    /\ \E i \in Sockets : sockets[i].closer = "destroy"
    /\ close(State) = State

\* Transports that are CONNECTING or OPEN, held by the controller or not.
Live == {i \in Sockets : sockets[i].readyState \in {"CONNECTING", "OPEN"}}

\* The controller's fields and its pending timers.
controller == <<isPageVisible, webSocket, isManualClosed, heartbeatTimer,
                reconnectTimer, preCloseTimer, timers>>

\* The caller's callbacks.
Callbacks == {"onopen", "onmessage", "onclose", "onerror"}

\* C11: at most one transport the controller created is CONNECTING or OPEN,
\* transports it no longer holds included.
C11_AtMostOneLiveTransport ==
    Cardinality(Live) <= 1

\* C12: an event of a transport that has been replaced (open, message, close,
\* error, or the continuation of a message suspended on the binary decode)
\* changes neither the controller's fields nor its timers and invokes no
\* callback of the caller.
C12_NoStaleTransportEvent ==
    [][(/\ op'.name \in {"open", "message", "decoded", "closed", "error"}
        /\ op'.sock < Len(sockets))
          => /\ UNCHANGED controller
             /\ \A k \in DOMAIN out' : out'[k].ev \notin Callbacks]_vars

\* C13: at most one reconnect timer is pending.
C13_AtMostOneReconnectTimer ==
    Cardinality(PendingTimers("reconnect")) <= 1

\* C13 witness: the replacement transport closed unexpectedly too, after the
\* first transport had, and one reconnect timer is pending.
C13_Witness ==
    /\ op.name = "closed" /\ op.sock = 2
    /\ Did("onclose") # {}
    /\ sockets[1].closer = "peer" /\ sockets[2].closer = "peer"
    /\ closedIn = ""
    /\ Cardinality(PendingTimers("reconnect")) = 1

\* C14: at most one probe-timeout timer is pending, whatever heartbeatInterval
\* and timeout are.
C14_AtMostOneProbeTimer ==
    Cardinality(PendingTimers("preClose")) <= 1

\* C15: at most one heartbeat interval timer is pending.
C15_AtMostOneHeartbeatTimer ==
    Cardinality(PendingTimers("heartbeat")) <= 1

\* C15 witness: the second transport has opened and one heartbeat interval
\* timer is pending.
C15_Witness ==
    /\ op.name = "open" /\ op.sock = 2
    /\ webSocket = 2
    /\ sockets[1].readyState = "CLOSED"
    /\ Cardinality(PendingTimers("heartbeat")) = 1

\* C16: while the controller holds no transport, no heartbeat interval timer
\* and no probe-timeout timer is pending.
C16_NoHeartbeatWithoutTransport ==
    webSocket = null =>
        /\ PendingTimers("heartbeat") = {}
        /\ PendingTimers("preClose") = {}

\* C17: while the controller's page flag is hidden the transport has been torn
\* down (none held, none CONNECTING or OPEN) and no reconnect timer is pending.
C17_BackgroundTearsDownNoReconnect ==
    ~isPageVisible =>
        /\ webSocket = null
        /\ Live = {}
        /\ reconnectTimer = undefined
        /\ PendingTimers("reconnect") = {}

\* C18: a visibilitychange to visible that finds the controller suspended, the
\* caller never having called close(), constructs exactly one transport in that
\* step, which the controller holds, and arms no reconnect timer.
C18_ForegroundReconnectsAtOnce ==
    [][(/\ op'.name = "visibilitychange" /\ op'.arg = "visible"
        /\ ~isPageVisible
        /\ closedIn = "")
          => /\ Cardinality({k \in DOMAIN out' : out'[k].ev = "new"}) = 1
             /\ Len(sockets') = Len(sockets) + 1
             /\ webSocket' = Len(sockets')
             /\ sockets'[webSocket'].readyState = "CONNECTING"
             /\ \A k \in DOMAIN timers' : timers'[k].kind # "reconnect"]_vars

\* C18 witness: the page has just come back from a suspension that tore an
\* OPEN transport down, and the replacement transport is connecting.
C18_Witness ==
    /\ op.name = "visibilitychange" /\ op.arg = "visible"
    /\ closedIn = ""
    /\ Len(sockets) = 2 /\ webSocket = 2
    /\ sockets[1].closer = "destroy"
    /\ sockets[2].readyState = "CONNECTING"
    /\ Cardinality(Did("new")) = 1

\* C19: an error event the controller handles invokes the caller's onerror
\* exactly once; a transport that was OPEN is closed by that step; and when the
\* close event of a transport closed that way is handled with the page visible
\* and close() not called, one reconnect timer is pending.
C19_ErrorForwardedAndClosed ==
    [][/\ op'.name = "error" =>
            /\ Cardinality({k \in DOMAIN out' : out'[k].ev = "onerror"}) = 1
            /\ \A k \in DOMAIN out' : out'[k].ev = "onerror" => out'[k].sock = op'.sock
            /\ sockets[op'.sock].readyState = "OPEN"
                  => sockets'[op'.sock].readyState = "CLOSING"
       /\ (/\ op'.name = "closed"
           /\ sockets'[op'.sock].closer = "onError"
           /\ \E k \in DOMAIN out' : out'[k].ev = "onclose"
           /\ isPageVisible' /\ ~isManualClosed')
             => /\ Cardinality({k \in DOMAIN timers' : timers'[k].kind = "reconnect"}) = 1
                /\ reconnectTimer' # undefined]_vars

\* C19 witness: the close event of a transport that #onError closed has been
\* handled and the reconnect timer is armed.
C19_Witness ==
    /\ op.name = "closed"
    /\ sockets[op.sock].closer = "onError"
    /\ Did("onclose") # {}
    /\ isPageVisible /\ ~isManualClosed /\ closedIn = ""
    /\ Cardinality(PendingTimers("reconnect")) = 1

\* C20: the handling of a frame that is not JSON, or is JSON without a type
\* field (null included), invokes no callback, lets no error escape, and leaves the
\* controller's fields and timers as they were.
C20_MalformedFrameDropped ==
    [][(/\ op'.name \in {"message", "decoded"}
        /\ op'.arg \in {"notype", "null", "nonjson"})
          => /\ out' = <<>>
             /\ UNCHANGED controller]_vars

\* (earlier releases) Reconnect attempts made since the last successful open:
\* the sockets constructed after the last one that ever was OPEN, or after the
\* constructor's.
Consecutive ==
    LET opened == {i \in Sockets : sockets[i].opened}
        base   == CHOOSE b \in opened \cup {1} : \A i \in opened : i <= b
    IN  Len(sockets) - base

\* C21: (release v1) with maxReconnectAttempts = N > 0, never more than N
\* transports are constructed in a row without a successful open; the closure
\* that follows the N-th such attempt arms no reconnect timer, every earlier
\* one arms one; with N = 0 every closure arms one.
C21_AttemptCeiling ==
    LET N == options.maxReconnectAttempts
    IN  /\ N > 0 => Consecutive <= N
        /\ (op.name = "closed" /\ N > 0 /\ Consecutive >= N)
              => (PendingTimers("reconnect") = {} /\ reconnectTimer = null)
        /\ (op.name = "closed" /\ (N = 0 \/ Consecutive < N))
              => Cardinality(PendingTimers("reconnect")) = 1

\* C21 witness: N = 3, the fourth transport in a row has closed without ever
\* opening, and no timer is pending.
C21_Witness ==
    /\ options.maxReconnectAttempts = 3
    /\ op.name = "closed" /\ op.sock = 4
    /\ Consecutive = 3
    /\ \A i \in Sockets : sockets[i].readyState = "CLOSED"
    /\ timers = <<>>

\* C22: (release v1) the step that handles a transport's open leaves the
\* attempt counter at 0; and every reconnect timer is armed with the
\* configured reconnectInterval (the delay never departs from it).
C22_OpenResetsAttempts ==
    /\ op.name = "open" => reconnectAttempts = 0
    /\ \A k \in DOMAIN delays : delays[k] = options.reconnectInterval
    /\ \A k \in PendingTimers("reconnect") : timers[k].delay = options.reconnectInterval

\* C22 witness: the third transport opened after two attempts that never
\* opened, and the counter is back at 0.
C22_Witness ==
    /\ op.name = "open" /\ op.sock = 3
    /\ ~sockets[1].opened /\ ~sockets[2].opened
    /\ reconnectAttempts = 0

\* C23: (release v2) the delays of the reconnect timers armed over consecutive
\* unexpected closures never decrease and never exceed maxReconnectInterval.
C23_BackoffMonotoneCapped ==
    \A k \in DOMAIN delays :
        /\ delays[k] <= options.maxReconnectInterval
        /\ k > 1 => delays[k] >= delays[k - 1]

\* C26: a controller constructed with a non-positive heartbeatInterval,
\* timeout or reconnectDelay has created no transport and armed no timer.
C26_InvalidOptionsRejected ==
    (/\ op.name = "constructor"
     /\ \/ options.heartbeatInterval <= 0
        \/ options.timeout <= 0
        \/ options.reconnectDelay <= 0)
       => (sockets = <<>> /\ webSocket = null /\ timers = <<>> /\ Did("new") = {})

\* The pings the last step wrote.
Pings == {k \in DOMAIN out : out[k].ev = "frame" /\ out[k].arg = "ping"}

\* C24: a connect step (the foreground event, or a reconnect timer firing) that
\* finds the held transport CONNECTING or OPEN constructs no transport and
\* leaves the transport reference, every socket with its handlers, the three
\* timer handles and the pending heartbeat and probe timers as they were.
C24_ConnectNoOpWhenLive ==
    [][(/\ \/ op'.name = "visibilitychange" /\ op'.arg = "visible"
           \/ op'.name = "reconnect"
        /\ readyState(State) \in {"CONNECTING", "OPEN"})
          => /\ out' = <<>>
             /\ UNCHANGED <<webSocket, sockets, heartbeatTimer, reconnectTimer, preCloseTimer>>
             /\ SelectSeq(timers', LAMBDA t : t.kind # "reconnect")
                   = SelectSeq(timers, LAMBDA t : t.kind # "reconnect")
             /\ op'.name = "visibilitychange" => timers' = timers]_vars

\* C24 witness: a foreground event found the transport OPEN with its heartbeat
\* running and did nothing.
C24_Witness ==
    /\ op.name = "visibilitychange" /\ op.arg = "visible"
    /\ webSocket = 1 /\ sockets[1].readyState = "OPEN"
    /\ Len(sockets) = 1
    /\ PendingTimers("heartbeat") # {}
    /\ out = <<>>

\* C25: the step that handles the open event of the held transport (the caller
\* not closing it from onopen) writes exactly one ping to it and leaves a probe
\* timer and the heartbeat interval timer pending; every heartbeat tick that
\* finds the held transport OPEN writes one ping and arms a probe timer; and
\* while the held transport is OPEN the heartbeat interval timer is pending.
C25_PingOnOpenAndEveryTick ==
    /\ (op.name = "open" /\ Did("onopen") # {} /\ op.arg = "none")
          => /\ Cardinality(Pings) = 1
             /\ \A k \in Pings : out[k].sock = op.sock
             /\ preCloseTimer # undefined
             /\ \E k \in PendingTimers("preClose") :
                   timers[k].id = preCloseTimer /\ timers[k].left = options.timeout
             /\ \E k \in PendingTimers("heartbeat") : timers[k].id = heartbeatTimer
    /\ (op.name = "heartbeat" /\ readyState(State) = "OPEN")
          => /\ Cardinality(Pings) = 1
             /\ \A k \in Pings : out[k].sock = webSocket
             /\ \E k \in PendingTimers("preClose") :
                   timers[k].id = preCloseTimer /\ timers[k].left = options.timeout
    /\ readyState(State) = "OPEN"
          => \E k \in PendingTimers("heartbeat") : timers[k].id = heartbeatTimer

\* C25 witness: a heartbeat tick has just pinged the OPEN transport again.
C25_Witness ==
    /\ op.name = "heartbeat"
    /\ readyState(State) = "OPEN"
    /\ Cardinality(Pings) = 1
    /\ preCloseTimer # undefined

\* C27: the caller's onclose runs with no reconnect timer armed yet (a close()
\* called from it finds the controller not Reconnecting); a close() from
\* inside onclose leaves no reconnect timer pending; without it, page visible,
\* the timer is armed by the end of the step; and once the caller has called
\* close(), no reconnect timer is pending or fires.
C27_OncloseBeforeReconnect ==
    /\ (op.name = "closed" /\ Did("onclose") # {} /\ op.arg = "close")
          => /\ closedIn # "Reconnecting"
             /\ isManualClosed
             /\ reconnectTimer = undefined
             /\ PendingTimers("reconnect") = {}
             /\ Did("new") = {}
    /\ (op.name = "closed" /\ Did("onclose") # {} /\ op.arg = "none"
            /\ isPageVisible /\ ~isManualClosed)
          => Cardinality(PendingTimers("reconnect")) = 1
    /\ closedIn # "" => (op.name # "reconnect" /\ PendingTimers("reconnect") = {})

\* C27 witness: the caller called close() from the onclose of a transport the
\* peer closed, and no reconnect timer is pending.
C27_Witness ==
    /\ op.name = "closed" /\ op.arg = "close"
    /\ Did("onclose") # {}
    /\ sockets[op.sock].closer = "peer"
    /\ closedIn = "Idle"
    /\ timers = <<>>

\* C28: the step that handles a transport's open event invokes onopen exactly
\* once, before anything is written; when the caller calls close() from
\* onopen the step writes no frame, holds no heartbeat or probe timer handle and
\* arms no heartbeat or probe timer.
C28_OnopenBeforeFirstPing ==
    [][(op'.name = "open" /\ sockets[op'.sock].onopen)
          => /\ Cardinality({k \in DOMAIN out' : out'[k].ev = "onopen"}) = 1
             /\ out'[1] = Event("onopen", op'.sock, "", "")
             /\ op'.arg = "close"
                   => /\ \A k \in DOMAIN out' : out'[k].ev # "frame"
                      /\ heartbeatTimer' = undefined /\ preCloseTimer' = undefined
                      /\ \A k \in DOMAIN timers' :
                            timers'[k].kind \in {"heartbeat", "preClose"}
                               => \E j \in DOMAIN timers : timers[j] = timers'[k]]_vars

\* C28 witness: the caller called close() from onopen; nothing was written
\* and no timer is pending.
C28_Witness ==
    /\ op.name = "open" /\ op.arg = "close"
    /\ out = <<Event("onopen", op.sock, "", "")>>
    /\ closedIn = "Open"
    /\ timers = <<>>

\* C29: every ping the last step wrote went to a transport that is OPEN; and
\* a heartbeat tick that finds no transport held, or the held one not OPEN,
\* writes nothing, cancels the heartbeat interval timer and arms no probe timer.
C29_NoPingUnlessOpen ==
    [][/\ \A k \in DOMAIN out' :
             (out'[k].ev = "frame" /\ out'[k].arg = "ping")
                => sockets'[out'[k].sock].readyState = "OPEN"
       /\ (op'.name = "heartbeat" /\ readyState(State) # "OPEN")
             => /\ out' = <<>>
                /\ heartbeatTimer' = undefined
                /\ \A k \in DOMAIN timers' : timers'[k].kind # "heartbeat"
                /\ \A k \in DOMAIN timers' :
                      timers'[k].kind = "preClose"
                         => \E j \in DOMAIN timers : timers[j] = timers'[k]]_vars

\* C29 witness: a heartbeat tick found the transport CLOSING after a probe
\* timeout, wrote nothing and cancelled the interval.
C29_Witness ==
    /\ op.name = "heartbeat"
    /\ webSocket # null
    /\ sockets[webSocket].readyState = "CLOSING"
    /\ sockets[webSocket].closer = "preClose"
    /\ out = <<>>
    /\ PendingTimers("heartbeat") = {}

\* C30: while the controller's page flag is hidden (the last visibility event
\* was a transition to hidden) it holds no transport and no heartbeat,
\* probe-timeout or reconnect timer is pending.
C30_HiddenHoldsNothing ==
    ~isPageVisible => (webSocket = null /\ timers = <<>>)

\* C31: the caller's onclose callback is invoked at most once for each
\* transport, whatever the order of probe timeouts, error events, peer
\* closes, visibility changes and close() calls: no transport is ever counted
\* twice, and no step invokes onclose twice for one transport.
C31_OncloseAtMostOncePerTransport ==
    \A i \in Sockets :
        /\ sockets[i].oncloseCount <= 1
        /\ Cardinality({k \in Did("onclose") : out[k].sock = i}) <= 1

\* C31 witness: the transport got an error event while OPEN, #onError began
\* its close, the close event arrived, and onclose was invoked once for it.
C31_Witness ==
    /\ op.name = "closed"
    /\ sockets[op.sock].closer = "onError"
    /\ sockets[op.sock].oncloseCount = 1
    /\ Cardinality({k \in Did("onclose") : out[k].sock = op.sock}) = 1

\* C32: when the caller calls close() while the transport is OPEN, the
\* caller's onclose callback is eventually invoked, exactly once, for that
\* transport's closure.
C32_CloseWhileOpenNotifiesOnce ==
    \A i \in 1..MaxSockets :
        (op.name = "close" /\ op.sock = i /\ closedIn = "Open")
            ~> (i \in Sockets /\ sockets[i].oncloseCount = 1)

\* C33: once the caller has called close(), no later step invokes the
\* caller's onmessage callback: neither a frame that arrives afterwards nor
\* the continuation of a message whose handling was suspended on the binary
\* decode before close() was called.
C33_NoOnmessageAfterClose ==
    [][closedIn # "" => \A k \in DOMAIN out' : out'[k].ev # "onmessage"]_vars

\* C34: the step in which a reconnect timer fires constructs exactly one
\* transport, with its four handlers attached, which becomes the current
\* transport; after the step no reconnect timer is pending, the reconnect
\* handle is empty and the manual-close flag is false.
C34_ReconnectFireMakesOneTransport ==
    [][op'.name = "reconnect" =>
          /\ Len(sockets') = Len(sockets) + 1
          /\ Cardinality({k \in DOMAIN out' : out'[k].ev = "new"}) = 1
          /\ webSocket' = Len(sockets')
          /\ LET ws == sockets'[Len(sockets')]
             IN  /\ ws.readyState = "CONNECTING"
                 /\ ws.onopen /\ ws.onmessage /\ ws.onclose /\ ws.onerror
          /\ \A k \in DOMAIN timers' : timers'[k].kind # "reconnect"
          /\ reconnectTimer' = undefined
          /\ ~isManualClosed']_vars

\* C34 witness: the reconnect timer armed by the closure of transport 1 has
\* fired and transport 2 is the current one, CONNECTING.
C34_Witness ==
    /\ op.name = "reconnect"
    /\ Did("new") # {}
    /\ webSocket = 2
    /\ sockets[1].readyState = "CLOSED"
    /\ sockets[2].readyState = "CONNECTING" /\ sockets[2].onclose
    /\ PendingTimers("reconnect") = {}
    /\ ~isManualClosed

\* C35: an error event on a transport that is not OPEN (a connection attempt
\* still CONNECTING, a transport already CLOSING), whose onerror callback
\* does nothing itself, only invokes onerror: no timer is armed or cleared,
\* no transport is constructed or closed, no handler is detached, and the
\* manual-close flag and every other field of the controller stay as they
\* were.  Recovery is left to the close event that follows.
C35_ErrorWhenNotOpenOnlyNotifies ==
    [][(/\ op'.name = "error" /\ op'.arg = "none"
        /\ sockets[op'.sock].readyState # "OPEN")
          => /\ out' = <<Event("onerror", op'.sock, "", "")>>
             /\ UNCHANGED ctrl]_vars

\* C35 witness: the first connection attempt, still CONNECTING, got an error
\* event; onerror was invoked and the transport is still CONNECTING and held.
C35_Witness ==
    /\ op.name = "error" /\ op.arg = "none" /\ op.sock = 1
    /\ Did("onerror") # {}
    /\ webSocket = 1
    /\ sockets[1].readyState = "CONNECTING"
    /\ timers = <<>>

\* C36: (release v1) with maxReconnectAttempts = N > 0 the attempt counter
\* stays within 0..N in every reachable state, whatever closures, timer
\* firings and opens have happened.
C36_AttemptCounterInRange ==
    options.maxReconnectAttempts > 0
        => /\ 0 <= reconnectAttempts
           /\ reconnectAttempts <= options.maxReconnectAttempts

\* C36 witness: N = 2, the reconnect timer has just fired for the second
\* time in a row and the counter stands at N, the top of its range.
C36_Witness ==
    /\ options.maxReconnectAttempts = 2
    /\ op.name = "reconnect"
    /\ reconnectAttempts = 2
    /\ Len(sockets) = 3

====
